---- MODULE Spec2Model ----
(***************************************************************************)
(* Model of src/src/app.py: a Flask service with a process-wide DataFrame  *)
(* cache (_df_cache), a column validator, four plot helpers, a generic     *)
(* scatter helper and the HTTP endpoints.                                  *)
(*                                                                         *)
(* Values.  A CSV file is [exists, header, rows] with text cells.  A       *)
(* DataFrame is [none, columns, data] where data[i] is the column named    *)
(* columns[i]; None is the record with none = TRUE.  A cell is             *)
(* [kind, text]: kind "num" is a number whose decimal text is `text`,      *)
(* kind "str" is a Python string, kind "nan" is NaN.                       *)
(***************************************************************************)
EXTENDS Integers, Sequences, FiniteSets, TLC

VARIABLES
    file,      \* the file at DATA_PATH on disk
    cache,     \* the module global _df_cache
    reads,     \* number of pd.read_csv calls made so far
    figs,      \* number of figures open in matplotlib.pyplot's global state
    last,      \* the operation that completed last and what its caller observed
    arg,       \* the DataFrame object handed to the last direct helper call, as it is afterwards
    pc,        \* per request thread: position inside get_data
    req,       \* per request thread: what it is serving, a get_data() call or GET /api/stats
    loaded     \* per request thread: the DataFrame pd.read_csv handed back to it

vars == <<file, cache, reads, figs, last, arg, pc, req, loaded>>

----------------------------------------------------------------------------
(* Bounds *)

MaxFigs == 2
MaxLen == 2
NumThreads == 2

Threads == 1..NumThreads

----------------------------------------------------------------------------
(* Column names used by the program *)

PPG == "Points Per Game"
PassTD == "Pass Touchdowns"
RushTD == "Rushing TD"
OffYds == "Off Yards"
Turnover == "Turnover Margin"

key_numeric_cols == <<PPG, PassTD, RushTD, OffYds, Turnover>>

\* The second column of each plot helper / plot endpoint.
PlotNames == {"pass_tds", "rush_tds", "total_yds", "turnovers"}

SecondColumn(p) ==
    CASE p = "pass_tds" -> PassTD
      [] p = "rush_tds" -> RushTD
      [] p = "total_yds" -> OffYds
      [] p = "turnovers" -> Turnover

----------------------------------------------------------------------------
(* Sequences helpers *)

Range(s) == {s[i] : i \in 1..Len(s)}

IndexOf(s, x) == CHOOSE i \in 1..Len(s) : s[i] = x /\ \A j \in 1..(i - 1) : s[j] # x

----------------------------------------------------------------------------
(* Cells, CSV parsing and numeric coercion *)

Num(t) == [kind |-> "num", text |-> t]
Str(t) == [kind |-> "str", text |-> t]
NaN == [kind |-> "nan", text |-> ""]

\* Texts that parse as a number, and texts pandas reads as a missing value.
NumericTexts == {"30", "25", "20", "15"}
NATexts == {"", "N/A"}

\* pd.read_csv column type inference: a column whose every cell is a number
\* or missing becomes numeric; any other column keeps its cells as strings.
\* Missing cells are NaN in both.
InferColumn(raw) ==
    IF \A i \in 1..Len(raw) : raw[i] \in NumericTexts \cup NATexts
    THEN [i \in 1..Len(raw) |-> IF raw[i] \in NATexts THEN NaN ELSE Num(raw[i])]
    ELSE [i \in 1..Len(raw) |-> IF raw[i] \in NATexts THEN NaN ELSE Str(raw[i])]

None == [none |-> TRUE, columns |-> <<>>, data |-> <<>>]

read_csv(f) ==
    [none |-> FALSE,
     columns |-> f.header,
     data |-> [c \in 1..Len(f.header) |->
                 InferColumn([r \in 1..Len(f.rows) |-> f.rows[r][c]])]]

\* pd.to_numeric(series, errors="coerce")
ToNumericCell(c) ==
    CASE c.kind = "num" -> c
      [] c.kind = "str" -> IF c.text \in NumericTexts THEN Num(c.text) ELSE NaN
      [] OTHER -> NaN

to_numeric(col) == [i \in 1..Len(col) |-> ToNumericCell(col[i])]

Column(df, name) == df.data[IndexOf(df.columns, name)]

\* df[name] = col, for a column that exists: replaced in place.
SetColumn(df, name, col) ==
    [df EXCEPT !.data[IndexOf(df.columns, name)] = col]

NRows(df) == IF Len(df.data) = 0 THEN 0 ELSE Len(df.data[1])

\* Number of rows df.dropna(subset=[a, b]) keeps.
DropnaCount(df, a, b) ==
    Cardinality({r \in 1..NRows(df) :
                    Column(df, a)[r].kind # "nan" /\ Column(df, b)[r].kind # "nan"})

----------------------------------------------------------------------------
(* Files the environment may put at DATA_PATH *)

NoFile == [exists |-> FALSE, header |-> <<>>, rows |-> <<>>]

Csv(h, r) == [exists |-> TRUE, header |-> h, rows |-> r]

SampleFiles ==
    { Csv(<<PPG, PassTD>>, << <<"30", "20">>, <<"25", "15">> >>),
      Csv(<<PPG, PassTD>>, << <<"30", "abc">>, <<"25", "15">> >>),
      Csv(<<PPG, PassTD, RushTD, OffYds, Turnover>>,
          << <<"30", "20", "20", "25", "15">>, <<"N/A", "15", "15", "30", "20">> >>),
      Csv(<<PassTD, RushTD>>, << <<"20", "15">>, <<"15", "20">> >>),
      Csv(<<PPG, Turnover>>, << <<"abc", "">> >>) }

ServedFiles ==
    { Csv(<<PPG, PassTD>>, << <<"30", "20">>, <<"25", "15">> >>),
      Csv(<<PassTD, RushTD>>, << <<"20", "15">>, <<"15", "20">> >>) }

SampleFrames == {read_csv(f) : f \in SampleFiles}

\* Lists of required column names of length at most MaxLen.
ColumnLists ==
    UNION {[1..n -> Range(key_numeric_cols)] : n \in 0..MaxLen}

----------------------------------------------------------------------------
(* The functions of app.py, as operators on values *)

\* Names bound at module level when a request handler or helper runs.
ModuleGlobals ==
    {"io", "os", "tempfile", "Flask", "jsonify", "send_file", "abort",
     "matplotlib", "plt", "pd", "np", "sns", "app", "DATA_PATH", "_df_cache",
     "get_data", "require_columns", "_scatter_ppg_vs",
     "plot_ppg_vs_pass_tds", "plot_ppg_vs_rush_tds", "plot_ppg_vs_total_yds",
     "plot_ppg_vs_turnovers", "stats", "ppg_vs_pass_tds_endpoint",
     "ppg_vs_rush_tds_endpoint", "ppg_vs_total_yds_endpoint",
     "ppg_vs_turnovers_endpoint", "health"}

\* Only the first absent name.
MissingColumnsFirst(df, cols) ==
    LET absent(c) == c \notin Range(df.columns)
        all == SelectSeq(cols, absent)
    IN IF all = <<>> THEN <<>> ELSE <<all[1]>>

\* The list `missing` built by require_columns.
MissingColumns(df, cols) ==
    LET absent(c) == c \notin Range(df.columns)
    IN SelectSeq(cols, absent)

\* require_columns: abort(400) carrying the missing names, or nothing.
require_columns(df, cols) ==
    LET missing == MissingColumns(df, cols)
    IN IF missing # <<>>
       THEN [aborted |-> TRUE, status |-> 400, missing |-> missing]
       ELSE [aborted |-> FALSE, status |-> 0, missing |-> <<>>]

\* A column matplotlib cannot place on a category axis: strings mixed with NaN.
MixedObjectColumn(col) ==
    /\ \E i \in 1..Len(col) : col[i].kind = "str"
    /\ \E i \in 1..Len(col) : col[i].kind = "nan"

\* The outcomes of _scatter_ppg_vs(df, x_col): the error raised ("" for a
\* normal return), the missing names of a 400, and the figures left open.
\* Drawing a column of strings mixed with NaN may fail after the figure
\* exists; both outcomes are kept for such a column.
scatter_ppg_vs(df, x_col) ==
    LET rc == require_columns(df, <<PPG, x_col>>)
        ok == [error |-> "", missing |-> <<>>, opened |-> 0]
        failed == [error |-> "TypeError", missing |-> <<>>, opened |-> 1]
    IN IF rc.aborted
       THEN {[error |-> "HTTPException", missing |-> rc.missing, opened |-> 0]}
       ELSE IF MixedObjectColumn(Column(df, x_col)) \/ MixedObjectColumn(Column(df, PPG))
            THEN {ok, failed}
            ELSE {ok}

\* plot_ppg_vs_<p>(df): the DataFrame object afterwards, the error raised
\* ("" for a normal return) and the figures left open.
plot_ppg_vs(p, df) ==
    LET x == SecondColumn(p)
        df1 == SetColumn(df, PPG, to_numeric(Column(df, PPG)))
        df2 == SetColumn(df1, x, to_numeric(Column(df1, x)))
    IN IF PPG \notin Range(df.columns)
       THEN [df |-> df, error |-> "KeyError", opened |-> 0]
       ELSE IF x \notin Range(df1.columns)
       THEN [df |-> df1, error |-> "KeyError", opened |-> 0]
       ELSE IF DropnaCount(df2, PPG, x) = 0
       THEN [df |-> df2, error |-> "TypeError", opened |-> 1]
       ELSE IF "buf" \notin ModuleGlobals
       THEN [df |-> df2, error |-> "NameError", opened |-> 1]
       ELSE [df |-> df2, error |-> "", opened |-> 1]

\* The body of ppg_vs_<p>_endpoint: its first statement reads the name df.
plot_endpoint_body(p) ==
    IF "df" \notin ModuleGlobals
    THEN [error |-> "NameError", opened |-> 0]
    ELSE [error |-> "", opened |-> 1]

\* The columns stats() summarises.
numeric_cols_present(df) ==
    LET present(c) == c \in Range(df.columns)
    IN SelectSeq(key_numeric_cols, present)

----------------------------------------------------------------------------
(* What a caller observes *)

NoJson == [status |-> "", n_rows |-> 0, n_columns |-> 0, columns |-> <<>>, summary |-> <<>>]

Observation(op, which) ==
    [op |-> op, which |-> which, cols |-> <<>>, status |-> 0, mimetype |-> "",
     error |-> "", missing |-> <<>>, json |-> NoJson, body |-> FALSE, read |-> FALSE, ret |-> None]

\* Flask's handling of an exception that escapes a view function.
ServerError(op, which, e) ==
    [Observation(op, which) EXCEPT !.status = 500, !.mimetype = "text/html",
                                   !.error = e, !.body = TRUE]

ClientError(op, which, missing) ==
    [Observation(op, which) EXCEPT !.status = 400, !.mimetype = "text/html",
                                   !.error = "HTTPException", !.missing = missing,
                                   !.body = TRUE]

----------------------------------------------------------------------------
(* Initial state: the module has just been imported *)

Init ==
    /\ file \in ServedFiles \cup {NoFile}
    /\ cache = None
    /\ reads = 0
    /\ figs = 0
    /\ last = Observation("none", "")
    /\ arg = None
    /\ pc = [t \in Threads |-> "idle"]
    /\ req = [t \in Threads |-> ""]
    /\ loaded = [t \in Threads |-> None]

----------------------------------------------------------------------------
(* Environment: the file at DATA_PATH is written or deleted *)

WriteFile ==
    /\ \E f \in ServedFiles : file' = f
    /\ UNCHANGED <<cache, reads, figs, last, arg, pc, req, loaded>>

DeleteFile ==
    /\ file.exists
    /\ file' = NoFile
    /\ UNCHANGED <<cache, reads, figs, last, arg, pc, req, loaded>>

----------------------------------------------------------------------------
(* get_data, called directly or from stats(), on the request threads of   *)
(* app.run.  One step per statement: test the slot, test the path, read   *)
(* the file, store, return.  Threads interleave between the steps.        *)

\* What the caller of thread t sees when get_data raises e.
Raised(t, e) ==
    IF req[t] = "stats"
    THEN ServerError("stats", "", e)
    ELSE [Observation("get_data", "") EXCEPT !.error = e]

\* What the caller of thread t sees when get_data returns df: the value
\* itself, or the rest of stats() answered as JSON.
Returned(t, df) ==
    IF req[t] = "stats"
    THEN [Observation("stats", "") EXCEPT
             !.status = 200, !.mimetype = "application/json",
             !.json = [status |-> "", n_rows |-> NRows(df),
                       n_columns |-> Len(df.columns),
                       columns |-> df.columns,
                       summary |-> numeric_cols_present(df)],
             !.body = TRUE, !.read = ~loaded[t].none, !.ret = df]
    ELSE [Observation("get_data", "") EXCEPT !.read = ~loaded[t].none, !.ret = df]

\* Returning the thread's own read instead of the slot.
ReturnedValueLocal(t) == loaded[t]

\* The value `return _df_cache` hands to the caller of thread t.
ReturnedValue(t) == cache

\* A request thread enters get_data, for a direct call or for GET /api/stats.
Begin(t) ==
    /\ pc[t] = "idle"
    /\ \E k \in {"get_data", "stats"} : req' = [req EXCEPT ![t] = k]
    /\ pc' = [pc EXCEPT ![t] = "check"]
    /\ UNCHANGED <<file, cache, reads, figs, last, arg, loaded>>

\* if _df_cache is None
CheckSlot(t) ==
    /\ pc[t] = "check"
    /\ pc' = [pc EXCEPT ![t] = IF cache.none THEN "exists" ELSE "return"]
    /\ UNCHANGED <<file, cache, reads, figs, last, arg, req, loaded>>

\* if not os.path.exists(DATA_PATH): raise FileNotFoundError
CheckPath(t) ==
    /\ pc[t] = "exists"
    /\ IF file.exists
       THEN /\ pc' = [pc EXCEPT ![t] = "read"]
            /\ UNCHANGED <<last, req>>
       ELSE /\ pc' = [pc EXCEPT ![t] = "idle"]
            /\ last' = Raised(t, "FileNotFoundError")
            /\ req' = [req EXCEPT ![t] = ""]
    /\ UNCHANGED <<file, cache, reads, figs, arg, loaded>>

\* pd.read_csv(DATA_PATH); it raises FileNotFoundError itself when the file
\* was deleted after the test of the path.
ReadFile(t) ==
    /\ pc[t] = "read"
    /\ IF file.exists
       THEN /\ loaded' = [loaded EXCEPT ![t] = read_csv(file)]
            /\ reads' = reads + 1
            /\ pc' = [pc EXCEPT ![t] = "store"]
            /\ UNCHANGED <<last, req>>
       ELSE /\ pc' = [pc EXCEPT ![t] = "idle"]
            /\ last' = Raised(t, "FileNotFoundError")
            /\ req' = [req EXCEPT ![t] = ""]
            /\ UNCHANGED <<loaded, reads>>
    /\ UNCHANGED <<file, cache, figs, arg>>

\* _df_cache = <the DataFrame read>
StoreSlot(t) ==
    /\ pc[t] = "store"
    /\ cache' = loaded[t]
    /\ pc' = [pc EXCEPT ![t] = "return"]
    /\ UNCHANGED <<file, reads, figs, last, arg, req, loaded>>

\* return _df_cache, and in stats() the rest of the view
Return(t) ==
    /\ pc[t] = "return"
    /\ last' = Returned(t, ReturnedValue(t))
    /\ loaded' = [loaded EXCEPT ![t] = None]
    /\ req' = [req EXCEPT ![t] = ""]
    /\ pc' = [pc EXCEPT ![t] = "idle"]
    /\ UNCHANGED <<file, cache, reads, figs, arg>>

----------------------------------------------------------------------------
(* Requests and calls that touch neither the slot nor the file *)

\* A health check that loads the dataset first.
health_via_get_data ==
    /\ cache' = IF cache.none /\ file.exists THEN read_csv(file) ELSE cache
    /\ reads' = IF cache.none /\ file.exists THEN reads + 1 ELSE reads
    /\ last' = IF cache.none /\ ~file.exists
               THEN ServerError("health", "", "FileNotFoundError")
               ELSE [Observation("health", "") EXCEPT
                        !.status = 200, !.mimetype = "application/json",
                        !.json = [NoJson EXCEPT !.status = "ok"], !.body = TRUE]
    /\ UNCHANGED <<file, figs, arg, pc, req, loaded>>

\* GET /health
health ==
    /\ last' = [Observation("health", "") EXCEPT
                   !.status = 200, !.mimetype = "application/json",
                   !.json = [NoJson EXCEPT !.status = "ok"], !.body = TRUE]
    /\ UNCHANGED <<file, cache, reads, figs, arg, pc, req, loaded>>

\* GET /api/ppg-vs-pass-tds, -rush-tds, -total-yds, -turnovers
plot_endpoint(p) ==
    LET r == plot_endpoint_body(p)
    IN /\ figs + r.opened <= MaxFigs
       /\ figs' = figs + r.opened
       /\ last' = IF r.error # ""
                  THEN ServerError("plot_endpoint", p, r.error)
                  ELSE [Observation("plot_endpoint", p) EXCEPT
                           !.status = 200, !.mimetype = "image/png", !.body = TRUE]
       /\ UNCHANGED <<file, cache, reads, arg, pc, req, loaded>>

Next ==
    \/ WriteFile
    \/ DeleteFile
    \/ \E t \in Threads : Begin(t)
    \/ \E t \in Threads : CheckSlot(t)
    \/ \E t \in Threads : CheckPath(t)
    \/ \E t \in Threads : ReadFile(t)
    \/ \E t \in Threads : StoreSlot(t)
    \/ \E t \in Threads : Return(t)
    \/ health
    \/ \E p \in PlotNames : plot_endpoint(p)

Spec == Init /\ [][Next]_vars

----------------------------------------------------------------------------
(* The plot helpers and the plot endpoints, called on given DataFrames *)

\* A direct call of plot_ppg_vs_<p>(df)
call_plot_helper ==
    \E p \in PlotNames, df \in SampleFrames :
        LET r == plot_ppg_vs(p, df)
        IN /\ figs + r.opened <= MaxFigs
           /\ figs' = figs + r.opened
           /\ arg' = r.df
           /\ last' = [Observation("plot_helper", p) EXCEPT !.error = r.error,
                                                            !.ret = df]
           /\ UNCHANGED <<file, cache, reads, pc, req, loaded>>

\* A direct call of _scatter_ppg_vs(df, x_col)
call_scatter ==
    \E df \in SampleFrames, x_col \in Range(key_numeric_cols) \ {PPG} :
        \E r \in scatter_ppg_vs(df, x_col) :
           /\ figs + r.opened <= MaxFigs
           /\ figs' = figs + r.opened
           /\ arg' = df
           /\ last' = IF r.error = "HTTPException"
                      THEN ClientError("scatter", x_col, r.missing)
                      ELSE [Observation("scatter", x_col) EXCEPT
                               !.error = r.error, !.body = (r.error = ""), !.ret = df]
           /\ UNCHANGED <<file, cache, reads, pc, req, loaded>>

NextPlots ==
    \/ \E p \in PlotNames : plot_endpoint(p)
    \/ call_plot_helper
    \/ call_scatter

SpecPlots == Init /\ [][NextPlots]_vars

----------------------------------------------------------------------------
(* require_columns as a function of its arguments *)

\* A direct call of require_columns(df, cols)
call_require_columns ==
    \E df \in SampleFrames, cols \in ColumnLists :
        LET r == require_columns(df, cols)
        IN /\ last' = [(IF r.aborted
                         THEN ClientError("require_columns", "", r.missing)
                         ELSE Observation("require_columns", ""))
                        EXCEPT !.cols = cols]
           /\ arg' = df
           /\ UNCHANGED <<file, cache, reads, figs, pc, req, loaded>>

NextRequire == call_require_columns

SpecRequire == Init /\ [][NextRequire]_vars

----------------------------------------------------------------------------
(* Properties *)

\* The DataFrame a plot of p works on: both columns coerced to numbers.
Coerced(df, p) ==
    SetColumn(SetColumn(df, PPG, to_numeric(Column(df, PPG))),
              SecondColumn(p), to_numeric(Column(df, SecondColumn(p))))

\* The file holds both columns of plot p and at least two numeric rows.
GoodDataset(f, p) ==
    /\ f.exists
    /\ {PPG, SecondColumn(p)} \subseteq Range(f.header)
    /\ DropnaCount(Coerced(read_csv(f), p), PPG, SecondColumn(p)) >= 2

\* The columns plot p requires and the file lacks.
LackingColumns(f, p) == {PPG, SecondColumn(p)} \ Range(f.header)

\* Thread t's call ends in this step, by a return or by a raise.
Completes(t) == pc[t] # "idle" /\ pc'[t] = "idle"

\* Thread t's call ends in this step by raising.
Raises(t) == pc[t] \in {"exists", "read"} /\ pc'[t] = "idle"

\* Some thread is past the test of the slot and has not stored yet.
LoadInFlight == \E t \in Threads : pc[t] \in {"exists", "read", "store"}

\* C1: a plot request on a dataset holding both of the plot's columns and at
\* least two numeric rows is answered 200 with mimetype image/png and a
\* non-empty body.
C1_PlotReturnsPng ==
    [][\A p \in PlotNames :
          (plot_endpoint(p) /\ GoodDataset(file, p))
              => (last'.status = 200 /\ last'.mimetype = "image/png" /\ last'.body)]_vars

\* C2: a plot request on a dataset lacking a required column is answered 400
\* with exactly the lacking columns named, and opens no figure.
C2_MissingColumnIs400 ==
    [][\A p \in PlotNames :
          (plot_endpoint(p) /\ file.exists /\ LackingColumns(file, p) # {})
              => (/\ last'.status = 400
                  /\ Range(last'.missing) = LackingColumns(file, p)
                  /\ figs' = figs)]_vars

\* C3: once the slot holds a DataFrame, no later step changes the slot or
\* reads the file again, whatever happens to the file.
C3_CachedForever ==
    [][(~cache.none) => (cache' = cache /\ reads' = reads)]_vars

\* C4: with the slot empty and no file at the path, /api/stats and each plot
\* endpoint fail with FileNotFoundError, answered as a server error.
C4_NotFoundOnFirstCall ==
    [][(/\ cache.none
        /\ ~file.exists
        /\ \/ \E p \in PlotNames : plot_endpoint(p)
           \/ \E t \in Threads : req[t] = "stats" /\ Completes(t))
          => (last'.status = 500 /\ last'.error = "FileNotFoundError")]_vars

\* What the client of /health received.
C5_HealthAnswer ==
    last.op = "health"
        => (/\ last.status = 200
            /\ last.mimetype = "application/json"
            /\ last.json = [NoJson EXCEPT !.status = "ok"]
            /\ last.error = "")

\* A /health request leaves the slot and the read count alone.
C5_HealthFrame ==
    (last'.op = "health" /\ last.op # "health") => (cache' = cache /\ reads' = reads)

\* C5: every /health answer is 200 with JSON {"status": "ok"}, and a /health
\* request neither reads the file nor changes the slot.
C5_HealthAlwaysOk == []C5_HealthAnswer /\ [][C5_HealthFrame]_vars

\* C5 witness: /health answered after a load whose file has since been deleted.
C5_Witness == last.op = "health" /\ ~cache.none /\ ~file.exists

\* C6: require_columns(df, cols) returns silently iff every name of cols is a
\* column of df; otherwise it aborts with 400 and the message lists exactly
\* the names of cols that df lacks.
C6_RequireExact ==
    last.op = "require_columns"
        => LET absent == {c \in Range(last.cols) : c \notin Range(arg.columns)}
           IN /\ (last.status = 0 /\ last.error = "") <=> (absent = {})
              /\ absent # {} => (last.status = 400 /\ Range(last.missing) = absent)
              /\ absent = {} => (last.missing = <<>> /\ ~last.body)

\* C6 witness: a call with one required column present and one absent.
C6_Witness ==
    /\ last.op = "require_columns"
    /\ Len(last.cols) = 2
    /\ last.cols[1] \in Range(arg.columns)
    /\ last.cols[2] \notin Range(arg.columns)
    /\ last.missing = <<last.cols[2]>>

\* C7: a plot helper leaves the DataFrame it is given as it was.
C7_HelperLeavesFrame == last.op = "plot_helper" => arg = last.ret

\* C8: no figure is left open.
C8_NoFigureLeftOpen == figs = 0

\* A call that returns hands back a DataFrame read from the file.
C9_ReturnsLoaded ==
    (last.op \in {"get_data", "stats"} /\ last.error = "")
        => (~last.ret.none /\ last.ret \in {read_csv(f) : f \in ServedFiles})

\* A returning call hands back what the slot holds at that moment.
C9_ReturnsSlot ==
    \A t \in Threads : (pc[t] = "return" /\ pc'[t] = "idle") => last'.ret = cache

\* A written slot is never emptied.
C9_SlotNeverEmptied == (~cache.none) => (~cache'.none)

\* With the slot written and no load in flight, the slot stays and no load starts.
C9_SlotSettles == (~cache.none /\ ~LoadInFlight) => (cache' = cache /\ ~LoadInFlight')

\* C9: with several threads inside get_data, a call that returns hands back
\* a DataFrame read from the file, never the empty slot; the slot never goes
\* back to empty; and with the slot written and no load in flight the slot
\* no longer changes and no new load starts.
C9_BenignRace ==
    /\ []C9_ReturnsLoaded
    /\ [][C9_ReturnsSlot /\ C9_SlotNeverEmptied /\ C9_SlotSettles]_vars

\* C9 witness: the file was read twice, the loads are over, and a call that
\* read nothing itself was handed the slot, which holds the second read.
C9_Witness ==
    /\ reads >= 2
    /\ ~LoadInFlight
    /\ last.op = "get_data" /\ last.error = "" /\ ~last.read
    /\ last.ret = cache
    /\ file.exists /\ read_csv(file) # cache

\* C10: when a get_data call raises FileNotFoundError the slot is empty
\* afterwards, so that the next call tests the path again.
C10_FailedLoadNotCached ==
    [][\A t \in Threads : Raises(t) => cache'.none]_vars

====
